---- MODULE Spec2Model ----
(***************************************************************************)
(* A model of package custombuild (builder.go): the Builder's lifecycle    *)
(* (Setup, goGet, Teardown, build, SetImportPath, RewriteImports) over an  *)
(* abstract filesystem and process table, the Env type (Set, Get), and the *)
(* functions errorFmt and DeepCopy on texts and directory trees.           *)
(*                                                                         *)
(* Strings are sequences of tokens; the token "=" is the character the     *)
(* environment code splits on.  A path is the sequence of its components;  *)
(* the empty sequence is the empty string "".  A path whose first          *)
(* component is a temporary root is absolute, any other one is relative    *)
(* to the working directory of the process.                                *)
(***************************************************************************)
EXTENDS Integers, Sequences, FiniteSets, TLC

\* ---------------------------------------------------------------- bounds
MaxPkgs == 2
MaxRoots == 2
MaxCalls == 3
MaxEntryLen == 3
MaxInitEnv == 2
MaxEnvLen == 3

\* defaultGoGetTimeout, in seconds
defaultGoGetTimeout == 30

\* the granularity of the model's clock, in seconds
TickSeconds == defaultGoGetTimeout

VARIABLES
    \* the Builder's fields
    Packages, timePerPackage, useNetworkForAll, hasGenerator,
    repoCopy, goPath, ready, env,
    \* the build's target platform (runtime.GOOS == "windows")
    windows,
    \* the filesystem: the directories that exist; the next temporary root
    \* and the directory that holds the copy of the repository ("" when none)
    disk, nextRoot, workspace,
    \* DeepCopy on its own: the source tree and the destination tree, each a
    \* function from the paths below its root to "dir" or a file's bytes
    tree, copy,
    \* goGet in flight: the caller's position, the fetch process, the
    \* goroutine that waits for it, the channel done, the timer
    pc, proc, procKind, status, killed, waiter, done, elapsed, killErr,
    \* goGet in flight: whether the fetch process has exited on its own before
    \* the deadline expired
    exitedInTime,
    \* what the environment has seen: processes started and the environment of
    \* the last compiler, callbacks made and the arguments of the last one,
    \* walks that rewrote the workspace's files
    fetchSpawned, fetchArgs, compilerSpawned, compilerEnv,
    generatorCalls, generatorArgs, rewrites,
    \* the last call that returned, and what the calls so far did
    ret, calls, setupOk, teardownOk

bvars == <<Packages, timePerPackage, useNetworkForAll, hasGenerator,
           repoCopy, goPath, ready, env, windows>>
fsvars == <<disk, nextRoot, workspace, tree, copy>>
gvars == <<pc, proc, procKind, exitedInTime, status, killed, waiter, done, elapsed,
           killErr>>
wvars == <<fetchSpawned, fetchArgs, compilerSpawned, compilerEnv,
           generatorCalls, generatorArgs, rewrites>>
hvars == <<ret, calls, setupOk, teardownOk>>
vars == <<bvars, fsvars, gvars, wvars, hvars>>

\* ------------------------------------------------------------------ Env
Eq == "="

RECURSIVE IndexOf(_, _, _)
\* strings.Index(s, c) from position i on; 0 when c does not occur
IndexOf(s, c, i) ==
    IF i > Len(s) THEN 0
    ELSE IF s[i] = c THEN i
    ELSE IndexOf(s, c, i + 1)

\* strings.SplitN(v, "=", 2)
SplitN2(v) ==
    LET i == IndexOf(v, Eq, 1)
    IN  IF i = 0 THEN <<v>>
        ELSE <<SubSeq(v, 1, i - 1), SubSeq(v, i + 1, Len(v))>>

RECURSIVE FirstMatch(_, _, _)
\* the index of the first well-formed entry of e whose key is key; 0 if none
FirstMatch(e, key, i) ==
    IF i > Len(e) THEN 0
    ELSE LET kv == SplitN2(e[i])
         IN  IF Len(kv) >= 2 /\ kv[1] = key THEN i
             ELSE FirstMatch(e, key, i + 1)

\* Env.Set without the loop: the entry is appended and nothing is replaced
EnvSetAppendOnly(e, key, value) == Append(e, key \o <<Eq>> \o value)

\* Env.Set: the append is executed after the loop, also when it replaced
EnvSet(e, key, value) ==
    LET keyVal == key \o <<Eq>> \o value
        i == FirstMatch(e, key, 1)
        replaced == IF i = 0 THEN e ELSE [e EXCEPT ![i] = keyVal]
    IN  Append(replaced, keyVal)

\* Env.Get
EnvGet(e, key) ==
    LET i == FirstMatch(e, key, 1)
    IN  IF i = 0 THEN <<>> ELSE SplitN2(e[i])[2]

\* ---------------------------------------------------------------- paths
GOPATH == <<"GOPATH">>
ListSeparator == ":"

\* the name ioutil.TempDir gives its n-th directory
Root(n) == <<"tmp" \o ToString(n)>>

\* filepath.Join: empty elements are ignored
Join(a, b) == a \o b

\* filepath.Base
Base(p) == IF p = <<>> THEN <<".">> ELSE <<p[Len(p)]>>

\* Builder.baseImportPath
baseImportPath(p) == IF p = <<>> THEN <<>> ELSE SubSeq(p, 1, Len(p) - 1)

IsPrefix(a, b) == Len(a) <= Len(b) /\ SubSeq(b, 1, Len(a)) = a

Prefixes(p) == {SubSeq(p, 1, n) : n \in 1..Len(p)}

\* os.MkdirAll
MkdirAll(d, p) == d \cup Prefixes(p)

\* os.RemoveAll: the empty path removes nothing
RemoveAll(d, p) == IF p = <<>> THEN d ELSE {q \in d : ~IsPrefix(p, q)}

\* Rename(old, new) succeeds: old exists, new is not below old, new is not a
\* directory with entries, and the parent of new exists
RenameOk(d, old, new) ==
    /\ old # <<>>
    /\ old \in d
    /\ \/ old = new
       \/ /\ ~IsPrefix(old, new)
          /\ ~\E q \in d : IsPrefix(new, q) /\ q # new
          /\ (Len(new) > 1 => baseImportPath(new) \in d)

\* os.Rename: the directory old and all below it move to new
Rename(d, old, new) ==
    IF ~RenameOk(d, old, new) \/ old = new THEN d
    ELSE {q \in d : ~IsPrefix(old, q)}
         \cup {new \o SubSeq(q, Len(old) + 1, Len(q)) : q \in {r \in d : IsPrefix(old, r)}}

\* where the directory p is after Rename(d, old, new)
Renamed(d, p, old, new) ==
    IF RenameOk(d, old, new) /\ IsPrefix(old, p)
    THEN new \o SubSeq(p, Len(old) + 1, Len(p))
    ELSE p

\* the directory p if it is still in d, "" if it has been removed
StillThere(d, p) == IF p \in d THEN p ELSE <<>>

\* --------------------------------------------------------------- errors
\* an error value: its message and, when errorFmt made it, the command line
Nil == [msg |-> "", command |-> <<>>]
New(m) == [msg |-> m, command |-> <<>>]
errorFmt(args, m) == [msg |-> m, command |-> args]

ErrAlreadySetUp == New("already set up")
ErrNotSetUp == New("not set up")
ErrTooLong == "process killed: go get took too long"
ErrProcessDone == "os: process already finished"

\* ------------------------------------------------------------ the state
\* a tree that is a directory without entries; the root's path is ""
RootOnly == [p \in {<<>>} |-> "dir"]

Pkg(n) == "pkg" \o ToString(n)
PackageLists == {[i \in 1..n |-> Pkg(i)] : n \in 0..MaxPkgs}

\* os.Environ() of the calling process
Environs == { << <<"HOME", Eq, "/h">>, <<"GOPATH", Eq, "/go">> >> }

\* the name of the copy below src: the base of RepoPath and the random number
RepoName == "repo_r_"

ImportPaths == {<<"a">>, <<"a", "b">>}
OldPaths == {<<"x">>}
NewPaths == {<<"y">>}
BuildOps == {"Build", "BuildARM", "BuildStatic", "BuildStaticARM"}

\* NewUnready: the Builder before Setup
NewUnready ==
    /\ timePerPackage = defaultGoGetTimeout
    /\ useNetworkForAll = TRUE
    /\ env \in Environs

\* a Builder written as a struct literal: the unexported fields are zero
Literal ==
    /\ timePerPackage = 0
    /\ useNetworkForAll = FALSE
    /\ env = <<>>

\* nothing has been called yet
Fresh ==
    /\ repoCopy = <<>>
    /\ goPath = <<>>
    /\ ready = FALSE
    /\ disk = {}
    /\ nextRoot = 1
    /\ workspace = <<>>
    /\ tree = RootOnly
    /\ copy = <<>>
    /\ pc = "idle"
    /\ proc = "none"
    /\ procKind = "none"
    /\ exitedInTime = FALSE
    /\ status = ""
    /\ killed = FALSE
    /\ waiter = "none"
    /\ done = <<>>
    /\ elapsed = 0
    /\ killErr = FALSE
    /\ fetchSpawned = 0
    /\ fetchArgs = <<>>
    /\ compilerSpawned = 0
    /\ compilerEnv = <<>>
    /\ generatorCalls = 0
    /\ generatorArgs = <<>>
    /\ rewrites = <<>>
    /\ calls = 0
    /\ setupOk = 0
    /\ teardownOk = 0

Init ==
    /\ Packages \in PackageLists
    /\ hasGenerator \in BOOLEAN
    /\ windows \in BOOLEAN
    /\ NewUnready \/ Literal
    /\ Fresh
    /\ ret = [op |-> "NewUnready", args |-> <<>>, err |-> Nil]

\* a call may start: no call is in progress and the call budget is not used up
CanCall == pc = "idle" /\ calls < MaxCalls

\* a call returns
Return(op, args, err) ==
    /\ ret' = [op |-> op, args |-> args, err |-> err]
    /\ calls' = calls + 1
    /\ pc' = "idle"

\* ---------------------------------------------------------------- Setup
\* goGet: the deadline of the fetch
Timeout(tpp, n) ==
    LET timeout == tpp * n
    IN  IF timeout = 0 THEN defaultGoGetTimeout ELSE timeout

\* goGet without the check for an empty list
NothingToGetNever(pkgs) == FALSE

\* goGet: there is nothing to do
NothingToGet(pkgs) == Len(pkgs) = 0

\* goGet: the command line of the fetch
GoGetArgs(useNetwork, pkgs) ==
    <<"go", "get", "-d">> \o (IF useNetwork THEN <<"-u", "-f">> ELSE <<>>) \o pkgs

\* the steps of Setup that can fail after goGet has returned nil
SetupFailures == {"none", "TempDir", "MkdirAll", "DeepCopy", "Generator"}

\* Setup that sets the ready flag before it looks at the callback's error
ReadyAfterGenerator(fail) == fail \in {"none", "Generator"}

\* the Builder becomes ready when no step of Setup failed
ReadyAfter(fail) == fail = "none"

\* Setup from the line after goGet to its return; fail names the step that
\* returns an error, "none" when every step succeeds
SetupRest(fail) ==
    /\ fail \in SetupFailures
    /\ fail = "Generator" => hasGenerator
    /\ IF fail = "TempDir"
       THEN /\ goPath' = <<>>
            /\ UNCHANGED <<env, repoCopy, disk, nextRoot, workspace>>
            /\ UNCHANGED <<generatorCalls, generatorArgs>>
       ELSE /\ goPath' = Root(nextRoot)
            /\ nextRoot' = nextRoot + 1
            /\ env' = EnvSet(env, GOPATH,
                             goPath' \o <<ListSeparator>> \o EnvGet(env, GOPATH))
            /\ repoCopy' = Join(goPath', <<"src", RepoName>>)
            /\ disk' = IF fail = "MkdirAll"
                       THEN disk \cup {goPath'}
                       ELSE MkdirAll(disk \cup {goPath'}, repoCopy')
            /\ workspace' = IF fail = "MkdirAll" THEN workspace ELSE repoCopy'
            /\ IF hasGenerator /\ fail \in {"none", "Generator"}
               THEN /\ generatorCalls' = generatorCalls + 1
                    /\ generatorArgs' = <<repoCopy', Packages>>
               ELSE UNCHANGED <<generatorCalls, generatorArgs>>
    /\ ready' = ReadyAfter(fail)
    /\ setupOk' = IF fail = "none" THEN setupOk + 1 ELSE setupOk
    /\ Return("Setup", <<>>, IF fail = "none" THEN Nil ELSE New(fail))
    /\ UNCHANGED <<Packages, timePerPackage, useNetworkForAll, hasGenerator,
                   windows, compilerSpawned, compilerEnv, rewrites, teardownOk>>
    /\ UNCHANGED <<tree, copy>>

\* Setup without the check of the ready flag
SetupRefusedNever(isReady) == FALSE

\* Setup is refused: the Builder is ready
SetupRefused(isReady) == isReady

\* Setup on a Builder that is ready
SetupAlready ==
    /\ CanCall
    /\ SetupRefused(ready)
    /\ Return("Setup", <<>>, ErrAlreadySetUp)
    /\ UNCHANGED <<bvars, fsvars, wvars, setupOk, teardownOk>>
    /\ UNCHANGED <<proc, procKind, exitedInTime, status, killed, waiter, done, elapsed, killErr>>

\* Setup with no packages: goGet returns at once
SetupNoPackages ==
    /\ CanCall
    /\ ~SetupRefused(ready)
    /\ nextRoot <= MaxRoots
    /\ NothingToGet(Packages)
    /\ \E fail \in SetupFailures : SetupRest(fail)
    /\ UNCHANGED <<fetchSpawned, fetchArgs>>
    /\ UNCHANGED <<proc, procKind, exitedInTime, status, killed, waiter, done, elapsed, killErr>>

\* Setup, goGet: cmd.Start fails
SetupStartFails ==
    /\ CanCall
    /\ ~SetupRefused(ready)
    /\ nextRoot <= MaxRoots
    /\ ~NothingToGet(Packages)
    /\ Return("Setup", <<>>, errorFmt(GoGetArgs(useNetworkForAll, Packages), "start"))
    /\ UNCHANGED <<bvars, fsvars, wvars, setupOk, teardownOk>>
    /\ UNCHANGED <<proc, procKind, exitedInTime, status, killed, waiter, done, elapsed, killErr>>

\* Setup, goGet: the process starts, the goroutine waits for it and the
\* caller blocks in the select
SetupStart ==
    /\ CanCall
    /\ ~SetupRefused(ready)
    /\ nextRoot <= MaxRoots
    /\ ~NothingToGet(Packages)
    /\ fetchSpawned' = fetchSpawned + 1
    /\ fetchArgs' = GoGetArgs(useNetworkForAll, Packages)
    /\ proc' = "running"
    /\ procKind' \in {"exit0", "exit1", "hang"}
    /\ exitedInTime' = FALSE
    /\ status' = ""
    /\ killed' = FALSE
    /\ killErr' = FALSE
    /\ waiter' = "waiting"
    /\ done' = <<>>
    /\ elapsed' = 0
    /\ pc' = "select"
    /\ UNCHANGED <<bvars, fsvars, compilerSpawned, compilerEnv, generatorCalls,
                   generatorArgs, rewrites, hvars>>

\* time passes while the caller is in the select
Tick ==
    /\ pc = "select"
    /\ elapsed < Timeout(timePerPackage, Len(Packages))
    /\ elapsed' = IF elapsed + TickSeconds < Timeout(timePerPackage, Len(Packages))
                  THEN elapsed + TickSeconds
                  ELSE Timeout(timePerPackage, Len(Packages))
    /\ UNCHANGED <<bvars, fsvars, wvars, hvars>>
    /\ UNCHANGED <<pc, proc, procKind, exitedInTime, status, killed, waiter, done, killErr>>

\* the fetch process exits on its own
ProcExit ==
    /\ proc = "running"
    /\ procKind \in {"exit0", "exit1"}
    /\ proc' = "exited"
    /\ status' = IF procKind = "exit0" THEN "" ELSE "exit status 1"
    /\ exitedInTime' = (elapsed < Timeout(timePerPackage, Len(Packages)))
    /\ UNCHANGED <<bvars, fsvars, wvars, hvars>>
    /\ UNCHANGED <<pc, procKind, killed, waiter, done, elapsed, killErr>>

\* the fetch process dies of the kill signal
ProcKilled ==
    /\ proc = "running"
    /\ killed
    /\ proc' = "exited"
    /\ status' = "signal: killed"
    /\ UNCHANGED <<bvars, fsvars, wvars, hvars>>
    /\ UNCHANGED <<pc, procKind, exitedInTime, killed, waiter, done, elapsed, killErr>>

\* the goroutine: cmd.Wait returns and its result goes into done
WaiterSends ==
    /\ waiter = "waiting"
    /\ proc = "exited"
    /\ proc' = "reaped"
    /\ done' = <<status>>
    /\ waiter' = "finished"
    /\ UNCHANGED <<bvars, fsvars, wvars, hvars>>
    /\ UNCHANGED <<pc, procKind, exitedInTime, status, killed, elapsed, killErr>>

\* Process.Kill fails when the process has been waited for already
KillFails(p) == p = "reaped"

\* a select whose timer case can be taken before the deadline has expired
SelectTimeoutAnyTime ==
    /\ pc = "select"
    /\ killErr' = KillFails(proc)
    /\ killed' = ~KillFails(proc)
    /\ pc' = "drain"
    /\ UNCHANGED <<bvars, fsvars, wvars, hvars>>
    /\ UNCHANGED <<proc, procKind, exitedInTime, status, waiter, done, elapsed>>

\* select, case <-time.After(timeout): kill the process, then wait for done
SelectTimeout ==
    /\ pc = "select"
    /\ elapsed = Timeout(timePerPackage, Len(Packages))
    /\ killErr' = KillFails(proc)
    /\ killed' = ~KillFails(proc)
    /\ pc' = "drain"
    /\ UNCHANGED <<bvars, fsvars, wvars, hvars>>
    /\ UNCHANGED <<proc, procKind, exitedInTime, status, waiter, done, elapsed>>

\* goGet returns without looking at the kill's error
KillResultTimeoutOnly(args, kerr) == errorFmt(args, ErrTooLong)

\* the error goGet returns after the kill
KillResult(args, kerr) ==
    IF kerr THEN errorFmt(args, ErrProcessDone) ELSE errorFmt(args, ErrTooLong)

\* after the kill, without <-done: goGet returns while the process may still
\* run and the goroutine may still wait
DrainWithoutWait ==
    /\ pc = "drain"
    /\ Return("Setup", <<>>, KillResult(fetchArgs, killErr))
    /\ UNCHANGED <<bvars, fsvars, wvars, setupOk, teardownOk>>
    /\ exitedInTime' = FALSE
    /\ UNCHANGED <<proc, procKind, status, killed, waiter, done, elapsed, killErr>>

\* after the kill: <-done, then the kill's error or the timeout error
Drain ==
    /\ pc = "drain"
    /\ done # <<>>
    /\ done' = <<>>
    /\ Return("Setup", <<>>, KillResult(fetchArgs, killErr))
    /\ UNCHANGED <<bvars, fsvars, wvars, setupOk, teardownOk>>
    /\ exitedInTime' = FALSE
    /\ UNCHANGED <<proc, procKind, status, killed, waiter, elapsed, killErr>>

\* Setup that goes on after goGet has returned an error
SelectDoneErrGoesOn ==
    /\ pc = "select"
    /\ done # <<>>
    /\ done[1] # ""
    /\ done' = <<>>
    /\ \E fail \in SetupFailures : SetupRest(fail)
    /\ UNCHANGED <<fetchSpawned, fetchArgs>>
    /\ exitedInTime' = FALSE
    /\ UNCHANGED <<proc, procKind, status, killed, waiter, elapsed, killErr>>

\* select, case err := <-done with err != nil: Setup returns the error
SelectDoneErr ==
    /\ pc = "select"
    /\ done # <<>>
    /\ done[1] # ""
    /\ done' = <<>>
    /\ Return("Setup", <<>>, errorFmt(fetchArgs, done[1]))
    /\ UNCHANGED <<bvars, fsvars, wvars, setupOk, teardownOk>>
    /\ exitedInTime' = FALSE
    /\ UNCHANGED <<proc, procKind, status, killed, waiter, elapsed, killErr>>

\* select, case err := <-done with err == nil: Setup goes on
SelectDoneNil ==
    /\ pc = "select"
    /\ done # <<>>
    /\ done[1] = ""
    /\ done' = <<>>
    /\ \E fail \in SetupFailures : SetupRest(fail)
    /\ UNCHANGED <<fetchSpawned, fetchArgs>>
    /\ exitedInTime' = FALSE
    /\ UNCHANGED <<proc, procKind, status, killed, waiter, elapsed, killErr>>

\* ----------------------------------------------------- the other calls
\* Teardown is refused: the Builder is not ready
TeardownRefused(isReady) == ~isReady

\* Teardown that removes the copy of the repository only
TeardownTargetCopy(gp, rc) == rc

\* Teardown: the directory it removes is the temporary root
TeardownTarget(gp, rc) == gp

\* Builder.Teardown; removed says whether os.RemoveAll succeeded
Teardown(removed) ==
    /\ CanCall
    /\ IF TeardownRefused(ready)
       THEN /\ removed
            /\ Return("Teardown", <<>>, ErrNotSetUp)
            /\ UNCHANGED <<disk, workspace, teardownOk>>
       ELSE IF removed
       THEN /\ disk' = RemoveAll(disk, TeardownTarget(goPath, repoCopy))
            /\ workspace' = StillThere(disk', workspace)
            /\ teardownOk' = teardownOk + 1
            /\ Return("Teardown", <<>>, Nil)
       ELSE /\ Return("Teardown", <<>>, New("RemoveAll"))
            /\ UNCHANGED <<disk, workspace, teardownOk>>
    /\ UNCHANGED <<bvars, nextRoot, tree, copy, wvars, setupOk>>
    /\ UNCHANGED <<proc, procKind, exitedInTime, status, killed, waiter, done, elapsed, killErr>>

\* build: the command line of the compiler (CommandName is not set)
BuildArgs == <<"go", "build", "-o", "destination">>

\* what Build, BuildARM, BuildStatic and BuildStaticARM pass to build
BuildRequest(op) ==
    LET arm == op \in {"BuildARM", "BuildStaticARM"}
    IN  [goos |-> <<"linux">>,
         goarch |-> IF arm THEN <<"arm">> ELSE <<"amd64">>,
         goarm |-> IF arm THEN <<"7">> ELSE <<>>,
         static |-> op \in {"BuildStatic", "BuildStaticARM"}]

CGO_ENABLED == <<"CGO_ENABLED", Eq, "0">>

\* build: cmd.Env, the Builder's environment and the target of the request
CmdEnv(e, req) ==
    e \o << <<"GOOS", Eq>> \o req.goos,
            <<"GOARCH", Eq>> \o req.goarch,
            <<"GOARM", Eq>> \o req.goarm >>
      \o (IF req.static THEN <<CGO_ENABLED>> ELSE <<>>)

\* build that stores cmd.Env in the Builder
EnvAfterBuildLayered(e, cmdEnv) == cmdEnv

\* build: the Builder's environment after cmd.Env has been made of it
EnvAfterBuild(e, cmdEnv) == e

\* build without the check of the ready flag
BuildRefusedNever(isReady) == FALSE

\* build is refused: the Builder is not ready
BuildRefused(isReady) == ~isReady

\* Builder.build behind Build, BuildARM, BuildStatic and BuildStaticARM;
\* run is what cmd.Run does: "start" (the command does not start), "exit0"
\* or "exit1".  A working directory that does not exist fails the start.
build(op, run) ==
    /\ CanCall
    /\ IF BuildRefused(ready)
       THEN /\ run = "start"
            /\ Return(op, <<>>, ErrNotSetUp)
            /\ UNCHANGED <<compilerSpawned, compilerEnv, env>>
       ELSE IF repoCopy \notin disk
       THEN /\ run = "start"
            /\ Return(op, <<>>, errorFmt(BuildArgs, "chdir"))
            /\ env' = EnvAfterBuild(env, CmdEnv(env, BuildRequest(op)))
            /\ UNCHANGED <<compilerSpawned, compilerEnv>>
       ELSE IF run = "start"
       THEN /\ Return(op, <<>>, errorFmt(BuildArgs, "start"))
            /\ env' = EnvAfterBuild(env, CmdEnv(env, BuildRequest(op)))
            /\ UNCHANGED <<compilerSpawned, compilerEnv>>
       ELSE /\ compilerSpawned' = compilerSpawned + 1
            /\ compilerEnv' = CmdEnv(env, BuildRequest(op))
            /\ env' = EnvAfterBuild(env, compilerEnv')
            /\ Return(op, <<>>, IF run = "exit0" THEN Nil
                          ELSE errorFmt(BuildArgs, "exit status 1"))
    /\ UNCHANGED <<Packages, timePerPackage, useNetworkForAll, hasGenerator,
                   repoCopy, goPath, ready, windows>>
    /\ UNCHANGED <<fsvars, setupOk, teardownOk>>
    /\ UNCHANGED <<fetchSpawned, fetchArgs, generatorCalls, generatorArgs, rewrites>>
    /\ UNCHANGED <<proc, procKind, exitedInTime, status, killed, waiter, done, elapsed, killErr>>

\* Builder.SetImportPath; mkdir says whether os.MkdirAll succeeded
SetImportPath(importPath, mkdir) ==
    LET newDirectory == Join(goPath, <<"src">> \o importPath)
        made == MkdirAll(disk, baseImportPath(newDirectory))
        cleared == IF windows THEN RemoveAll(made, newDirectory) ELSE made
    IN  /\ CanCall
        /\ IF ~mkdir
           THEN /\ Return("SetImportPath", <<importPath>>, New("MkdirAll"))
                /\ UNCHANGED <<disk, workspace, repoCopy>>
           ELSE /\ disk' = Rename(cleared, repoCopy, newDirectory)
                /\ workspace' = Renamed(cleared, StillThere(cleared, workspace),
                                        repoCopy, newDirectory)
                /\ repoCopy' = newDirectory
                /\ Return("SetImportPath", <<importPath>>,
                          IF RenameOk(cleared, repoCopy, newDirectory)
                          THEN Nil ELSE New("rename"))
        /\ UNCHANGED <<Packages, timePerPackage, useNetworkForAll, hasGenerator,
                       goPath, ready, env, windows>>
        /\ UNCHANGED <<nextRoot, tree, copy, wvars, setupOk, teardownOk>>
        /\ UNCHANGED <<proc, procKind, exitedInTime, status, killed, waiter, done, elapsed, killErr>>

\* the walk of RewriteImports; parsed says whether rewritePath succeeded.
\* When the root of the walk does not exist the callback is called with a
\* nil FileInfo and info.IsDir() panics.
Walk(op, oldPath, newPath, parsed) ==
    /\ CanCall
    /\ IF repoCopy \notin disk
       THEN /\ parsed
            /\ Return(op, <<oldPath, newPath>>, New("panic: nil pointer dereference"))
            /\ UNCHANGED rewrites
       ELSE IF parsed
       THEN /\ rewrites' = Append(rewrites, <<oldPath, newPath>>)
            /\ Return(op, <<oldPath, newPath>>, Nil)
       ELSE /\ Return(op, <<oldPath, newPath>>, New("rewritePath"))
            /\ UNCHANGED rewrites
    /\ UNCHANGED <<bvars, fsvars, setupOk, teardownOk>>
    /\ UNCHANGED <<fetchSpawned, fetchArgs, compilerSpawned, compilerEnv>>
    /\ UNCHANGED <<generatorCalls, generatorArgs>>
    /\ UNCHANGED <<proc, procKind, exitedInTime, status, killed, waiter, done, elapsed, killErr>>

\* Builder.RewriteImports
RewriteImports(oldPath, newPath, parsed) ==
    Walk("RewriteImports", oldPath, newPath, parsed)

\* Builder.RewriteImportsFrom
RewriteImportsFrom(importPath, parsed) ==
    Walk("RewriteImportsFrom", importPath, Base(repoCopy), parsed)

Next ==
    \/ SetupAlready
    \/ SetupNoPackages
    \/ SetupStartFails
    \/ SetupStart
    \/ Tick
    \/ ProcExit
    \/ ProcKilled
    \/ WaiterSends
    \/ SelectTimeout
    \/ Drain
    \/ SelectDoneErr
    \/ SelectDoneNil
    \/ \E removed \in BOOLEAN : Teardown(removed)
    \/ \E op \in BuildOps, run \in {"start", "exit0", "exit1"} : build(op, run)
    \/ \E importPath \in ImportPaths, mkdir \in BOOLEAN :
           SetImportPath(importPath, mkdir)
    \/ \E oldPath \in OldPaths, newPath \in NewPaths, parsed \in BOOLEAN :
           RewriteImports(oldPath, newPath, parsed)
    \/ \E importPath \in OldPaths, parsed \in BOOLEAN :
           RewriteImportsFrom(importPath, parsed)

Spec == Init /\ [][Next]_vars

\* ------------------------------------------- Setup alone, with fairness
\* the calls are Setup calls only; time passes, the goroutine and the
\* caller are scheduled, and a killed process dies
NextFetch ==
    \/ SetupAlready
    \/ SetupNoPackages
    \/ SetupStartFails
    \/ SetupStart
    \/ Tick
    \/ ProcExit
    \/ ProcKilled
    \/ WaiterSends
    \/ SelectTimeout
    \/ Drain
    \/ SelectDoneErr
    \/ SelectDoneNil

SpecFetch ==
    /\ Init
    /\ [][NextFetch]_vars
    /\ WF_vars(Tick)
    /\ WF_vars(ProcKilled)
    /\ WF_vars(WaiterSends)
    /\ WF_vars(SelectTimeout)
    /\ WF_vars(Drain)

\* ------------------------------------------------- an Env on its own
EnvChars == {"K", Eq}
SeqsUpTo(S, n) == UNION {[1..k -> S] : k \in 0..n}
EnvEntries == SeqsUpTo(EnvChars, MaxEntryLen)
EnvKeys == {<<>>, <<"K">>, <<"K", "K">>}
EnvVals == {<<>>, <<"K">>, <<Eq>>}

InitEnv ==
    /\ Packages = <<>>
    /\ hasGenerator = FALSE
    /\ windows = FALSE
    /\ timePerPackage = 0
    /\ useNetworkForAll = FALSE
    /\ env \in SeqsUpTo(EnvEntries, MaxInitEnv)
    /\ Fresh
    /\ ret = [op |-> "Env", args |-> <<>>, err |-> Nil]

\* a call of Env.Set
Set(key, value) ==
    /\ Len(env) < MaxEnvLen
    /\ env' = EnvSet(env, key, value)
    /\ Return("Set", <<key, value>>, Nil)
    /\ UNCHANGED <<Packages, timePerPackage, useNetworkForAll, hasGenerator,
                   repoCopy, goPath, ready, windows>>
    /\ UNCHANGED <<fsvars, wvars, setupOk, teardownOk>>
    /\ UNCHANGED <<proc, procKind, exitedInTime, status, killed, waiter, done, elapsed, killErr>>

NextEnv == \E key \in EnvKeys, value \in EnvVals : Set(key, value)

SpecEnv == InitEnv /\ [][NextEnv]_vars

\* --------------------------------------------------- errorFmt on its own
\* the text of an error is a sequence of tokens: NL is the newline, CR the
\* carriage return, and LongRun stands for a run of bytes without a newline
\* that is as long as the largest token a bufio.Scanner returns (64 KiB)
NL == "<LF>"
CR == "<CR>"
LongRun == "<64KiB>"
MaxTextLen == 3

TextChars == {"a", NL, CR, LongRun}
Texts == SeqsUpTo(TextChars, MaxTextLen)
CmdLines == {<<"go">>, <<"go", "get", "me">>}
ErrMsgs == {<<"exit status 1">>}

prefix == <<NL, "---- ">>

RECURSIVE JoinArgs(_)
\* strings.Join(cmd.Args, " ")
JoinArgs(a) ==
    IF Len(a) = 0 THEN <<>>
    ELSE IF Len(a) = 1 THEN <<a[1]>>
    ELSE <<a[1], " ">> \o JoinArgs(Tail(a))

\* bufio.dropCR
dropCR(line) ==
    IF Len(line) > 0 /\ line[Len(line)] = CR
    THEN SubSeq(line, 1, Len(line) - 1) ELSE line

\* the scanner's buffer cannot hold the line: Scan returns false
TooLong(line) == \E i \in 1..Len(line) : line[i] = LongRun

RECURSIVE ScanLines(_)
\* the tokens scanner.Scan() yields for buf before it returns false
ScanLines(buf) ==
    IF Len(buf) = 0 THEN <<>>
    ELSE LET i == IndexOf(buf, NL, 1)
             line == IF i = 0 THEN buf ELSE SubSeq(buf, 1, i - 1)
             rest == IF i = 0 THEN <<>> ELSE SubSeq(buf, i + 1, Len(buf))
         IN  IF TooLong(line) THEN <<>>
             ELSE <<dropCR(line)>> \o ScanLines(rest)

RECURSIVE Prefixed(_)
\* the loop of errorFmt: result += prefix + scanner.Text()
Prefixed(lines) ==
    IF Len(lines) = 0 THEN <<>>
    ELSE prefix \o Head(lines) \o Prefixed(Tail(lines))

\* errorFmt: the message of the error it returns
errorFmtText(args, msg, buf) ==
    msg \o prefix \o <<"COMMAND: ">> \o JoinArgs(args) \o prefix
        \o Prefixed(ScanLines(buf))

\* a call of errorFmt; the function keeps no state, one call per behaviour
errorFmtCall(args, msg, buf) ==
    /\ pc = "idle"
    /\ calls = 0
    /\ Return("errorFmt", <<args, msg, buf>>, New(errorFmtText(args, msg, buf)))
    /\ UNCHANGED <<bvars, fsvars, wvars, setupOk, teardownOk>>
    /\ UNCHANGED <<proc, procKind, exitedInTime, status, killed, waiter, done, elapsed, killErr>>

InitErr ==
    /\ Packages = <<>>
    /\ hasGenerator = FALSE
    /\ windows = FALSE
    /\ Literal
    /\ Fresh
    /\ ret = [op |-> "errorFmt", args |-> <<>>, err |-> Nil]

NextErr ==
    \E args \in CmdLines, msg \in ErrMsgs, buf \in Texts : errorFmtCall(args, msg, buf)

SpecErr == InitErr /\ [][NextErr]_vars

\* --------------------------------------------------- DeepCopy on its own
\* a name is a sequence of characters, a path a sequence of names
MaxEntries == 3

\* the names of entries, in the order filepath.Walk visits them
Names == << <<".", "h">>, <<"a">> >>

\* the bytes of a file
Contents == {"x", "y"}

\* the names the directory src may have
SrcNames == {<<"r">>, <<".", "r">>}

\* no entry of the tree: the walk meets no I/O error
NoPath == << <<"none">> >>

\* f with the entry k at p
Put(f, p, k) == [q \in DOMAIN f \cup {p} |-> IF q = p THEN k ELSE f[q]]

\* DeepCopy that skips nothing
HiddenNever(name) == FALSE

\* DeepCopy: info.Name() == "" || info.Name()[0] == '.'
Hidden(name) == Len(name) = 0 \/ name[1] = "."

\* strings.TrimPrefix
TrimPrefix(path, pre) ==
    IF IsPrefix(pre, path) THEN SubSeq(path, Len(pre) + 1, Len(path)) ELSE path

\* the entries of the directory rel of t, in the walk's order
Children(t, rel) ==
    SelectSeq([i \in 1..Len(Names) |-> Append(rel, Names[i])],
              LAMBDA q : q \in DOMAIN t)

RECURSIVE WalkCopy(_, _, _, _, _)
\* filepath.Walk(src, fn) with the function of DeepCopy: todo are the paths
\* below src still to visit, in order, cp is the destination so far, and bad
\* is the entry whose access fails
WalkCopy(t, src, todo, cp, bad) ==
    IF Len(todo) = 0 THEN [copy |-> cp, err |-> Nil]
    ELSE LET rel == Head(todo)
             path == Join(src, rel)
             name == path[Len(path)]
             destpath == TrimPrefix(path, src)
         IN  IF rel = bad THEN [copy |-> cp, err |-> New("io")]
             ELSE IF Hidden(name) THEN WalkCopy(t, src, Tail(todo), cp, bad)
             ELSE IF t[rel] = "dir"
             THEN WalkCopy(t, src, Children(t, rel) \o Tail(todo),
                           Put(cp, destpath, "dir"), bad)
             ELSE WalkCopy(t, src, Tail(todo), Put(cp, destpath, t[rel]), bad)

\* DeepCopy(src, dest) into the empty directory dest
DeepCopy(t, src, bad) == WalkCopy(t, src, << <<>> >>, RootOnly, bad)

\* the source tree gets an entry before it is copied
MakeEntry(dir, name, kind) ==
    /\ pc = "idle"
    /\ calls = 0
    /\ dir \in DOMAIN tree
    /\ tree[dir] = "dir"
    /\ Append(dir, name) \notin DOMAIN tree
    /\ Cardinality(DOMAIN tree) <= MaxEntries
    /\ tree' = Put(tree, Append(dir, name), kind)
    /\ UNCHANGED <<bvars, disk, nextRoot, workspace, copy, gvars, wvars, hvars>>

\* a call of DeepCopy, as Setup makes it: the destination is a new directory
DeepCopyCall(srcName, bad) ==
    /\ pc = "idle"
    /\ calls = 0
    /\ copy' = DeepCopy(tree, <<srcName>>, bad).copy
    /\ Return("DeepCopy", <<srcName, bad>>, DeepCopy(tree, <<srcName>>, bad).err)
    /\ UNCHANGED <<bvars, disk, nextRoot, workspace, tree, wvars, setupOk, teardownOk>>
    /\ UNCHANGED <<proc, procKind, exitedInTime, status, killed, waiter, done, elapsed, killErr>>

InitCopy ==
    /\ Packages = <<>>
    /\ hasGenerator = FALSE
    /\ windows = FALSE
    /\ Literal
    /\ Fresh
    /\ ret = [op |-> "DeepCopy", args |-> <<>>, err |-> Nil]

NextCopy ==
    \/ \E dir \in DOMAIN tree, i \in 1..Len(Names), kind \in {"dir"} \cup Contents :
           MakeEntry(dir, Names[i], kind)
    \/ \E srcName \in SrcNames, bad \in DOMAIN tree \cup {NoPath} :
           DeepCopyCall(srcName, bad)

SpecCopy == InitCopy /\ [][NextCopy]_vars

\* --------------------------------------------------------------- claims
\* the step is the return of a call of op
Returned(op) == calls' = calls + 1 /\ ret'.op = op

\* the steps of Setup that fail after the temporary root has been created
AfterTempDir == {"MkdirAll", "DeepCopy", "Generator"}

\* C1: a Teardown call that follows a Setup call which created a temporary
\* root and then failed returns nil, and afterwards that root does not exist.
C1_TeardownReclaimsFailedSetup ==
    [][(/\ ret.op = "Setup"
        /\ ret.err.msg \in AfterTempDir
        /\ Returned("Teardown"))
       => (ret'.err = Nil /\ goPath \notin disk')]_vars

\* C2: a Setup call on a ready Builder returns "already set up" and changes
\* nothing: no fetch process, no temporary root, no callback, and goPath,
\* repoCopy, env and ready are as before.
C2_SetupWhenReadyHasNoEffect ==
    [][(ready /\ Returned("Setup"))
       => (/\ ret'.err = ErrAlreadySetUp
           /\ UNCHANGED <<fetchSpawned, nextRoot, disk, generatorCalls,
                          goPath, repoCopy, env, ready>>)]_vars

C2_Witness ==
    /\ ready
    /\ ret.op = "Setup"
    /\ ret.err = ErrAlreadySetUp
    /\ generatorCalls = 1

\* C3: as long as no Setup call has succeeded, every build call returns
\* "not set up" and no compiler process has been started.
C3_BuildBeforeSetupRefused ==
    setupOk = 0 =>
        /\ compilerSpawned = 0
        /\ ret.op \in BuildOps => ret.err = ErrNotSetUp

C3_Witness ==
    /\ setupOk = 0
    /\ ret.op = "BuildStaticARM"
    /\ ret.err = ErrNotSetUp
    /\ goPath # <<>>

\* C4: after a Teardown call has succeeded, every build call returns
\* "not set up" and starts no compiler process.
C4_BuildAfterTeardownRefused ==
    [][\A op \in BuildOps :
         (teardownOk > 0 /\ Returned(op))
         => (ret'.err = ErrNotSetUp /\ compilerSpawned' = compilerSpawned)]_vars

\* C5: at most one Teardown call on a Builder returns nil.
C5_TeardownSucceedsOnce == teardownOk <= 1

\* C6: SetImportPath, RewriteImports and RewriteImportsFrom called on a
\* Builder that is not ready return "not set up" and leave the directories,
\* the files and repoCopy as they were.
C6_RelocateAndRewriteNeedReady ==
    [][\A op \in {"SetImportPath", "RewriteImports", "RewriteImportsFrom"} :
         (~ready /\ Returned(op))
         => (/\ ret'.err = ErrNotSetUp
             /\ UNCHANGED <<disk, rewrites, repoCopy>>)]_vars

\* the key of a well-formed entry
HasKey(entry) == Len(SplitN2(entry)) >= 2
KeyOf(entry) == SplitN2(entry)[1]

\* an environment holds at most one entry per key
OnePerKey(e) ==
    \A i, j \in 1..Len(e) :
        (i # j /\ HasKey(e[i]) /\ HasKey(e[j])) => KeyOf(e[i]) # KeyOf(e[j])

\* C7: a Set call on an environment with at most one entry per key leaves
\* at most one entry per key.
C7_SetKeepsOneEntryPerKey ==
    [][(OnePerKey(env) /\ Returned("Set")) => OnePerKey(env')]_vars

\* C8: after Set(k, v), Get(k) is v and Get of every other key is what it
\* was, whatever the environment held (malformed entries, duplicate keys).
C8_SetIsUpsertThroughGet ==
    [][Returned("Set")
       => (/\ EnvGet(env', ret'.args[1]) = ret'.args[2]
           /\ \A k \in EnvKeys :
                  k # ret'.args[1] => EnvGet(env', k) = EnvGet(env, k))]_vars

\* a Set has replaced the first of two entries for a key in an environment
\* that also holds a malformed entry
C8_Witness ==
    /\ ret.op = "Set"
    /\ ret.args = <<<<"K">>, <<Eq>>>>
    /\ Len(env) = 3
    /\ env[1] = <<"K">>
    /\ env[2] = <<"K", Eq, Eq>>
    /\ env[3] = <<"K", Eq, Eq>>

\* C9: with no packages no fetch process is ever started, Setup never
\* blocks in the select, and no Setup call returns an error of the fetch.
C9_NoPackagesNoProcess ==
    Len(Packages) = 0 =>
        /\ fetchSpawned = 0
        /\ proc = "none"
        /\ pc = "idle"
        /\ ret.op = "Setup" => ret.err.command = <<>>

C9_Witness ==
    /\ Len(Packages) = 0
    /\ ret.op = "Setup"
    /\ ret.err = Nil
    /\ ready

\* goGet is blocked on a process that never exits on its own
Hanging == pc # "idle" /\ procKind = "hang"

\* C10: a fetch whose process never exits on its own returns; it returns
\* at the deadline and not before, with the timeout error, after it has
\* killed the process and received the result of cmd.Wait, so that the
\* process is gone and the waiting goroutine has finished.
C10_HangingFetchTimesOut ==
    /\ Hanging ~> pc = "idle"
    /\ [][(Hanging /\ pc' = "idle")
          => (/\ ret'.err = errorFmt(GoGetArgs(useNetworkForAll, Packages), ErrTooLong)
              /\ elapsed' = Timeout(timePerPackage, Len(Packages))
              /\ killed'
              /\ proc' = "reaped"
              /\ waiter' = "finished"
              /\ done' = <<>>)]_vars

C10_Witness ==
    /\ pc = "idle"
    /\ procKind = "hang"
    /\ ret.op = "Setup"
    /\ ret.err.msg = ErrTooLong
    /\ proc = "reaped"
    /\ Len(Packages) = 2
    /\ elapsed = 2 * defaultGoGetTimeout

\* C11: when the deadline has expired and Process.Kill returned an error,
\* goGet returns that error, formatted, in place of the timeout error, and
\* it returns only after it has received the result of cmd.Wait from done.
C11_KillFailureIsPrimary ==
    [][(pc = "drain" /\ killErr /\ pc' = "idle")
       => (/\ ret'.op = "Setup"
           /\ ret'.err = errorFmt(fetchArgs, ErrProcessDone)
           /\ ret'.err.msg # ErrTooLong
           /\ done # <<>>
           /\ done' = <<>>
           /\ waiter = "finished"
           /\ proc = "reaped")]_vars

C11_Witness ==
    /\ pc = "idle"
    /\ killErr
    /\ ~killed
    /\ elapsed = Timeout(timePerPackage, Len(Packages))
    /\ ret.op = "Setup"
    /\ ret.err.msg = ErrProcessDone
    /\ done = <<>>

\* C12 as stated: every Setup call, here even only those on a Builder that
\* is not ready and has a callback, invokes the callback exactly once.
C12_CallbackOncePerSetup ==
    [][(hasGenerator /\ ~ready /\ Returned("Setup"))
       => generatorCalls' = generatorCalls + 1]_vars

\* C12, amended: the callback is invoked at most once per Setup call and only
\* inside a Setup call on a Builder that is not ready, after the copy has
\* been made, with the root of the copy and the package list; it is invoked
\* exactly once by every Setup call that returns nil or the callback's error
\* on a Builder with a callback, the Builder becomes ready only in a step
\* that has invoked it, and when the callback fails Setup returns its error
\* and the Builder does not become ready.
C12_CallbackAtMostOnceBeforeReady ==
    [][/\ generatorCalls' \in {generatorCalls, generatorCalls + 1}
       /\ generatorCalls' # generatorCalls
              => /\ hasGenerator /\ ~ready /\ Returned("Setup")
                 /\ generatorArgs' = <<repoCopy', Packages>>
                 /\ repoCopy' \in disk' /\ workspace' = repoCopy'
                 /\ ret'.err \in {Nil, New("Generator")}
       /\ (Returned("Setup") /\ hasGenerator /\ ret'.err \in {Nil, New("Generator")})
              => generatorCalls' = generatorCalls + 1
       /\ (~ready /\ ready' /\ hasGenerator)
              => generatorCalls' = generatorCalls + 1
       /\ (Returned("Setup") /\ ret'.err = New("Generator")) => ~ready'
       /\ (Returned("Setup") /\ ret'.err \notin {Nil, New("Generator")})
              => generatorCalls' = generatorCalls]_vars

C12_Witness ==
    /\ ret.op = "Setup" /\ ret.err = New("Generator")
    /\ generatorCalls = 1 /\ generatorArgs = <<repoCopy, Packages>>
    /\ ~ready /\ repoCopy \in disk

\* the temporary roots this Builder's Setup calls have created and that exist
TempRootsOnDisk == {p \in disk : \E n \in 1..(nextRoot - 1) : p = Root(n)}

\* C13: in every reachable state at most one temporary root created by the
\* Builder exists on disk, and it is the one recorded in goPath.
C13_AtMostOneTempRoot ==
    /\ Cardinality(TempRootsOnDisk) <= 1
    /\ TempRootsOnDisk \subseteq {goPath}

\* the build operations that ask for a static executable
StaticOps == {"BuildStatic", "BuildStaticARM"}

\* the entries of an environment
Entries(e) == {e[i] : i \in 1..Len(e)}

\* C14: no build call changes the Builder's environment, which stays what it
\* was when Setup made the Builder ready; every compiler is started with that
\* environment followed by the target variables of its own request, and
\* CGO_ENABLED=0 is among them exactly when the request is a static one.
C14_BuildLeavesBaseEnvironment ==
    [][/\ (calls' = calls + 1 /\ ret'.op \in BuildOps) => env' = env
       /\ ready => env' = env
       /\ compilerSpawned' # compilerSpawned
              => /\ ret'.op \in BuildOps
                 /\ compilerEnv' = CmdEnv(env', BuildRequest(ret'.op))
                 /\ SubSeq(compilerEnv', 1, Len(env)) = env
                 /\ Len(compilerEnv') = Len(env) + (IF ret'.op \in StaticOps THEN 4 ELSE 3)
                 /\ CGO_ENABLED \in Entries(compilerEnv') <=> ret'.op \in StaticOps]_vars

\* a second compiler has run, for a request that is not static
C14_Witness ==
    /\ compilerSpawned = 2 /\ ret.op = "Build" /\ ret.err = Nil
    /\ ready /\ Len(compilerEnv) = Len(env) + 3
    /\ CGO_ENABLED \notin Entries(compilerEnv)

RECURSIVE SplitOn(_, _)
\* the pieces of s between the occurrences of c
SplitOn(s, c) ==
    LET i == IndexOf(s, c, 1)
    IN  IF i = 0 THEN <<s>>
        ELSE <<SubSeq(s, 1, i - 1)>> \o SplitOn(SubSeq(s, i + 1, Len(s)), c)

\* the lines of a text: the pieces between its newlines, without the empty
\* piece after a final newline and without the carriage return of a line end
TextLines(buf) ==
    LET pieces == SplitOn(buf, NL)
        n == IF pieces[Len(pieces)] = <<>> THEN Len(pieces) - 1 ELSE Len(pieces)
    IN  [i \in 1..n |-> dropCR(pieces[i])]

\* the lines the formatted error is to have
FormattedLines(args, msg, buf) ==
    <<msg, <<"---- ", "COMMAND: ">> \o JoinArgs(args), <<"---- ">>>>
        \o [i \in 1..Len(TextLines(buf)) |-> <<"---- ">> \o TextLines(buf)[i]]

\* C15: for every command line, error and diagnostic text the formatted
\* error consists of the error's message, the line "---- COMMAND: " with the
\* arguments joined by spaces, the line "---- ", and one line "---- " plus
\* the line for every line of the diagnostic text, in order, and no more.
C15_FormattedErrorLines ==
    [][Returned("errorFmt")
       => SplitOn(ret'.err.msg, NL)
              = FormattedLines(ret'.args[1], ret'.args[2], ret'.args[3])]_vars

\* the entry p of a tree whose root is called srcName is to be copied: no
\* name on the way from the root to p, the root's included, is hidden
Visible(srcName, p) ==
    /\ ~(Len(srcName) = 0 \/ srcName[1] = ".")
    /\ \A i \in 1..Len(p) : ~(Len(p[i]) = 0 \/ p[i][1] = ".")

\* C16: after a successful DeepCopy into a new directory the destination
\* holds exactly the entries of the source that are not hidden and do not lie
\* below a hidden directory, directories as directories and files with the
\* bytes of the source; no hidden entry is there, and the source is unchanged.
C16_CopyIsTheVisibleTree ==
    [][(Returned("DeepCopy") /\ ret'.err = Nil)
       => /\ DOMAIN copy' \ {<<>>}
                 = {p \in DOMAIN tree \ {<<>>} : Visible(ret'.args[1], p)}
          /\ \A p \in DOMAIN copy' : copy'[p] = tree[p]
          /\ tree' = tree]_vars

\* a tree with a hidden directory that has an entry, and with a file, has
\* been copied
C16_Witness ==
    /\ ret.op = "DeepCopy" /\ ret.err = Nil /\ calls = 1
    /\ \E p \in DOMAIN tree :
           Len(p) = 2 /\ ~Visible(ret.args[1], p) /\ p \notin DOMAIN copy
    /\ \E p \in DOMAIN copy : copy[p] \in Contents

\* C17: a Teardown call that returns nil has removed the temporary root of
\* the successful Setup and everything below it: after it neither the root
\* nor the directory that held the copy, relocated or not, exists.
C17_TeardownRemovesRootAndWorkspace ==
    [][(Returned("Teardown") /\ ret'.err = Nil)
       => /\ setupOk > 0 /\ goPath # <<>>
          /\ \A q \in disk' : ~IsPrefix(goPath, q)
          /\ workspace \notin disk'
          /\ repoCopy \notin disk'
          /\ workspace' = <<>>]_vars

\* Setup, a relocation that moved the copy, and a Teardown that returned nil
C17_Witness ==
    /\ ret.op = "Teardown" /\ ret.err = Nil /\ setupOk = 1 /\ teardownOk = 1
    /\ \E importPath \in ImportPaths : repoCopy = Join(goPath, <<"src">> \o importPath)
    /\ goPath \notin disk /\ workspace = <<>> /\ calls = MaxCalls

\* the step is one in which goGet returns nil: there is nothing to fetch, or
\* the caller receives the exit status zero from done
FetchSucceeds ==
    \/ pc = "idle" /\ NothingToGet(Packages)
    \/ pc = "select" /\ done = <<"">>

\* C18: a fetch process is started only as the first step of a Setup call on
\* a Builder that is not ready, one per call; a temporary root is allocated
\* only in a step in which the fetch has succeeded, the copy is made only
\* where the root has been allocated, the callback is invoked only where the
\* copy has been made, and the Builder becomes ready only in a Setup step
\* that returns nil after all of these.  A Setup call that returns an error
\* leaves the Builder not ready, and one that returns the fetch's error has
\* created no temporary root and has not invoked the callback.
C18_SetupStepsInOrder ==
    [][/\ fetchSpawned' \in {fetchSpawned, fetchSpawned + 1}
       /\ fetchSpawned' # fetchSpawned
              => pc = "idle" /\ pc' = "select" /\ ~ready /\ calls' = calls
       /\ nextRoot' # nextRoot
              => FetchSucceeds /\ Returned("Setup") /\ nextRoot' = nextRoot + 1
       /\ (Returned("Setup") /\ workspace' # workspace)
              => nextRoot' = nextRoot + 1 /\ goPath' \in disk'
       /\ generatorCalls' # generatorCalls
              => /\ nextRoot' = nextRoot + 1
                 /\ workspace' = repoCopy' /\ repoCopy' \in disk'
       /\ (~ready /\ ready')
              => /\ Returned("Setup") /\ ret'.err = Nil /\ FetchSucceeds
                 /\ nextRoot' = nextRoot + 1
                 /\ workspace' = repoCopy' /\ repoCopy' \in disk'
                 /\ hasGenerator => generatorCalls' = generatorCalls + 1
       /\ (~ready /\ Returned("Setup") /\ ret'.err # Nil) => ~ready'
       /\ (Returned("Setup") /\ ret'.err.command # <<>>)
              => /\ ~ready'
                 /\ UNCHANGED <<disk, nextRoot, goPath, repoCopy, workspace>>
                 /\ UNCHANGED <<generatorCalls, fetchSpawned>>]_vars

\* a fetch that exited with a status other than zero has failed the one
\* Setup call made: no temporary root, no callback, not ready
C18_Witness ==
    /\ ret.op = "Setup" /\ ret.err = errorFmt(fetchArgs, "exit status 1")
    /\ calls = 1 /\ fetchSpawned = 1
    /\ ~ready /\ disk = {} /\ nextRoot = 1 /\ generatorCalls = 0

\* what goGet returns for the exit status st of the fetch process
ByExitStatus(st) == IF st = "" THEN Nil ELSE errorFmt(fetchArgs, st)

\* the step returns from goGet: with an error, or into the rest of Setup
GoGetReturns == pc \in {"select", "drain"} /\ pc' = "idle"

\* the error of the step is not goGet's: Setup went on after goGet
NotFromGoGet(err) == err.command = <<>>

\* C19 as stated: when the fetch process has exited before the deadline
\* expired, the caller does not kill it and goGet returns by the exit
\* status alone, never the timeout error or the kill's error.
C19_ExitBeforeDeadlineDecides ==
    [][exitedInTime
       => /\ ~(pc = "select" /\ pc' = "drain")
          /\ GoGetReturns
                 => /\ ~killed' /\ ~killErr'
                    /\ ret'.err.msg \notin {ErrTooLong, ErrProcessDone}
                    /\ IF status = "" THEN NotFromGoGet(ret'.err)
                       ELSE ret'.err = ByExitStatus(status)]_vars

\* C19, amended: what the caller's select takes decides.  When it receives
\* the result of cmd.Wait from done, goGet returns by the exit status alone
\* (nil for status zero, the formatted command error otherwise), the process
\* has not been killed and neither the timeout error nor the kill's error is
\* returned; the caller kills only when the deadline has expired, and then
\* goGet returns the timeout error or the kill's error, also for a process
\* that had exited before the deadline.
C19_ReceivedExitDecides ==
    [][/\ (pc = "select" /\ pc' = "idle")
              => /\ done # <<>> /\ done[1] = status /\ proc = "reaped"
                 /\ ~killed' /\ ~killErr'
                 /\ ret'.err.msg \notin {ErrTooLong, ErrProcessDone}
                 /\ IF status = "" THEN NotFromGoGet(ret'.err)
                    ELSE ret'.err = ByExitStatus(status)
       /\ (pc = "select" /\ pc' = "drain")
              => elapsed = Timeout(timePerPackage, Len(Packages))
       /\ (pc = "drain" /\ pc' = "idle")
              => /\ ret'.err.msg \in {ErrTooLong, ErrProcessDone}
                 /\ ret'.err.command = fetchArgs]_vars

\* the exit of the process has been received well before the deadline
C19_Witness ==
    /\ ret.op = "Setup" /\ ret.err = ByExitStatus("exit status 1")
    /\ pc = "idle" /\ ~killed /\ ~killErr
    /\ proc = "reaped" /\ elapsed = 0

\* C20: after every SetImportPath call on a Builder that has a copy of the
\* repository, repoCopy names the directory that holds the copy, and a call
\* that returns an error has left repoCopy unchanged.
C20_RepoCopyNamesWorkspace ==
    [][(Returned("SetImportPath") /\ workspace # <<>> /\ repoCopy = workspace)
       => /\ workspace' # <<>>
          /\ repoCopy' = workspace'
          /\ repoCopy' \in disk'
          /\ ret'.err # Nil => repoCopy' = repoCopy]_vars

====
